---- MODULE Spec2Model ----
(***************************************************************************)
(* A model of github.com/nir0k/logger at its latest revision (1.4.0, the   *)
(* revision of logger.go that has the registry mutex, the lazy default     *)
(* initialisation and the print family).                                   *)
(*                                                                         *)
(* Go strings that the code inspects (level names, the Format field) are   *)
(* sequences of one-character strings, so that strings.ToLower and the map *)
(* lookups are computed rather than assumed.  File paths are sequences of  *)
(* path components.                                                        *)
(***************************************************************************)
EXTENDS Integers, Sequences, FiniteSets, TLC

VARIABLES
    lg,           \* the *Logger the application got from NewLogger (NilPtr: none)
    lgErr,        \* the error NewLogger returned to the application
    built,        \* the application has called NewLogger
    logInstance,  \* package variable logInstance (the registry)
    mu,           \* package variable mu: 0 when free, else the goroutine holding it
    pc,           \* per goroutine: the statement it is about to execute
    loc,          \* per goroutine: arguments and locals of its running call
    files,        \* the log files that exist on disk
    step,         \* what the most recent statement did (call, I/O it issued)
    calls,        \* number of method calls made so far on lg
    exited,       \* exit status of the process, NotExited while it runs
    env           \* what the process was started in: pid, directory, terminal

vars == <<lg, lgErr, built, logInstance, mu, pc, loc, files, step, calls, exited, env>>

----------------------------------------------------------------------------
(* Bounds of the model.                                                    *)

\* number of goroutines that use the package-level API concurrently
NumProcs == 2

\* number of method calls the application makes on its own Logger
MaxCalls == 1

\* integer levels are drawn from (0 - IntSpan) .. (5 + IntSpan)
IntSpan == 1

Procs == 1..NumProcs

\* the goroutine that owns the Logger built by NewLogger
Main == 1

----------------------------------------------------------------------------
(* Strings.                                                                *)

s_trace   == <<"t","r","a","c","e">>
s_debug   == <<"d","e","b","u","g">>
s_info    == <<"i","n","f","o">>
s_warning == <<"w","a","r","n","i","n","g">>
s_error   == <<"e","r","r","o","r">>
s_fatal   == <<"f","a","t","a","l">>
s_print   == <<"p","r","i","n","t">>
s_standard == <<"s","t","a","n","d","a","r","d">>
s_json    == <<"j","s","o","n">>
s_empty   == <<>>

UpperLetters == <<"A","B","C","D","E","F","G","H","I","J","K","L","M",
                  "N","O","P","Q","R","S","T","U","V","W","X","Y","Z">>
LowerLetters == <<"a","b","c","d","e","f","g","h","i","j","k","l","m",
                  "n","o","p","q","r","s","t","u","v","w","x","y","z">>

ToLowerRune(c) ==
    IF \E i \in DOMAIN UpperLetters : UpperLetters[i] = c
    THEN LowerLetters[CHOOSE i \in DOMAIN UpperLetters : UpperLetters[i] = c]
    ELSE c

ToUpperRune(c) ==
    IF \E i \in DOMAIN LowerLetters : LowerLetters[i] = c
    THEN UpperLetters[CHOOSE i \in DOMAIN LowerLetters : LowerLetters[i] = c]
    ELSE c

\* strings.ToLower
ToLower(s) == [i \in DOMAIN s |-> ToLowerRune(s[i])]

\* strings.ToUpper
ToUpper(s) == [i \in DOMAIN s |-> ToUpperRune(s[i])]

----------------------------------------------------------------------------
(* Values.                                                                 *)

NilPtr == [t |-> "nil"]         \* a nil pointer / nil interface value
NoErr == [msg |-> ""]           \* a nil error
NotExited == 0 - 1

\* interface{} values a level field can hold
StrV(s) == [t |-> "string", s |-> s]
IntV(i) == [t |-> "int", i |-> i]
FloatV == [t |-> "float64"]

Err(msg, cause) == [msg |-> msg, cause |-> cause]

----------------------------------------------------------------------------
(* The file system the process runs in.                                    *)

p_ok      == <<"logs", "app.log">>      \* directory exists and is writable
p_missing == <<"missing", "app.log">>   \* directory does not exist
p_ro      == <<"ro", "app.log">>        \* directory exists, files cannot be created

ExistingDirs == {<<".">>, <<"logs">>, <<"ro">>}
WritableDirs == {<<".">>, <<"logs">>}

\* filepath.Dir
Dir(path) == IF Len(path) <= 1 THEN <<".">> ELSE SubSeq(path, 1, Len(path) - 1)

\* os.OpenFile(path, O_CREATE|O_WRONLY|O_APPEND, 0666) succeeds
CanOpen(path, fs) == path \in fs \/ Dir(path) \in WritableDirs

----------------------------------------------------------------------------
(* The process: its id, its working directory (NoCwd when os.Getwd fails),  *)
(* the directories that hold a go.mod file, and whether the colour package  *)
(* found standard output not to be a terminal (color.NoColor).              *)

Env(pid, cwd, mods, noColor) == [pid |-> pid, cwd |-> cwd, mods |-> mods, noColor |-> noColor]

NoCwd == <<>>

d_root == <<"/">>
d_home == <<"/", "home">>
d_app  == <<"/", "home", "app">>
d_cmd  == <<"/", "home", "app", "cmd">>
d_tmp  == <<"/", "tmp">>

HostEnv == Env(4242, d_app, {d_app}, TRUE)

\* started in the project root, below it, below a nested module, outside
\* any module, and without a working directory
Worlds ==
    {<<d_app, {d_app}>>, <<d_cmd, {d_app}>>, <<d_cmd, {d_app, d_cmd}>>,
     <<d_tmp, {d_app}>>, <<d_root, {}>>, <<NoCwd, {d_app}>>}

\* each world without a terminal, the first one also with a terminal
Envs == {Env(4242, w[1], w[2], TRUE) : w \in Worlds} \cup {Env(4242, d_app, {d_app}, FALSE)}

----------------------------------------------------------------------------
(* Configuration.                                                          *)

RotationConfig(maxSize, maxBackups, maxAge, compress) ==
    [MaxSize |-> maxSize, MaxBackups |-> maxBackups, MaxAge |-> maxAge,
     Compress |-> compress]

LogConfig(filePath, format, fileLevel, consoleLevel, consoleOutput, rotate, rc) ==
    [FilePath |-> filePath, Format |-> format, FileLevel |-> fileLevel,
     ConsoleLevel |-> consoleLevel, ConsoleOutput |-> consoleOutput,
     EnableRotation |-> rotate, RotationConfig |-> rc]

\* the zero value LogConfig{}
ZeroConfig ==
    LogConfig(s_empty, s_empty, NilPtr, NilPtr, FALSE, FALSE,
              RotationConfig(0, 0, 0, FALSE))

DefaultMaxSize == 10
DefaultMaxBackups == 7
DefaultMaxAge == 30

\* setDefaults with the level default of the first revision
setDefaults_info(config) ==
    [config EXCEPT
        !.Format = IF @ = s_empty THEN s_standard ELSE @,
        !.FileLevel = IF @ = NilPtr THEN StrV(s_info) ELSE @,
        !.ConsoleLevel = IF @ = NilPtr THEN StrV(s_info) ELSE @,
        !.RotationConfig.MaxSize = IF @ = 0 THEN DefaultMaxSize ELSE @,
        !.RotationConfig.MaxBackups = IF @ = 0 THEN DefaultMaxBackups ELSE @,
        !.RotationConfig.MaxAge = IF @ = 0 THEN DefaultMaxAge ELSE @]

setDefaults(config) ==
    [config EXCEPT
        !.Format = IF @ = s_empty THEN s_standard ELSE @,
        !.FileLevel = IF @ = NilPtr THEN StrV(s_warning) ELSE @,
        !.ConsoleLevel = IF @ = NilPtr THEN StrV(s_warning) ELSE @,
        !.RotationConfig.MaxSize = IF @ = 0 THEN DefaultMaxSize ELSE @,
        !.RotationConfig.MaxBackups = IF @ = 0 THEN DefaultMaxBackups ELSE @,
        !.RotationConfig.MaxAge = IF @ = 0 THEN DefaultMaxAge ELSE @]

\* a default configuration that leaves the console level to setDefaults
defaultConfig_warning ==
    [ZeroConfig EXCEPT !.Format = s_standard,
                       !.ConsoleOutput = TRUE]

defaultConfig ==
    [ZeroConfig EXCEPT !.Format = s_standard,
                       !.ConsoleLevel = StrV(s_info),
                       !.ConsoleOutput = TRUE]

----------------------------------------------------------------------------
(* NewLogger.                                                              *)

\* the LogLevelMap literal of NewLogger
LogLevelMap ==
    (s_trace :> 5) @@ (s_debug :> 4) @@ (s_info :> 3) @@
    (s_warning :> 2) @@ (s_error :> 1) @@ (s_fatal :> 0)

MaxIntLevel == 5

\* getLogLevel that looks the string up as written
getLogLevel_caseSensitive(levelMap, level) ==
    CASE level.t = "string" ->
            IF level.s \in DOMAIN levelMap
            THEN [rank |-> levelMap[level.s], err |-> NoErr]
            ELSE [rank |-> 0, err |-> Err("invalid log level", level)]
      [] level.t = "int" ->
            IF level.i < 0 THEN [rank |-> 0, err |-> NoErr]
            ELSE IF level.i > MaxIntLevel THEN [rank |-> MaxIntLevel, err |-> NoErr]
            ELSE [rank |-> level.i, err |-> NoErr]
      [] OTHER -> [rank |-> 0, err |-> Err("invalid type for log level", level)]

\* the closure getLogLevel of NewLogger: <<rank, error>>
getLogLevel(levelMap, level) ==
    CASE level.t = "string" ->
            IF ToLower(level.s) \in DOMAIN levelMap
            THEN [rank |-> levelMap[ToLower(level.s)], err |-> NoErr]
            ELSE [rank |-> 0, err |-> Err("invalid log level", level)]
      [] level.t = "int" ->
            IF level.i < 0 THEN [rank |-> 0, err |-> NoErr]
            ELSE IF level.i > MaxIntLevel THEN [rank |-> MaxIntLevel, err |-> NoErr]
            ELSE [rank |-> level.i, err |-> NoErr]
      [] OTHER -> [rank |-> 0, err |-> Err("invalid type for log level", level)]

\* a line written to a stream by fmt.Println
Diag(msg) == [ch |-> "stdout", kind |-> "diag", msg |-> msg]

FileWriter(path) == [w |-> "file", path |-> path]
RotatingWriter(path, rc) == [w |-> "lumberjack", path |-> path, rc |-> rc]

\* a NewLogger that does not create the console writer
StdoutWriter_absent == NilPtr

StdoutWriter == [w |-> "stdout"]

NewLoggerResult(l, err, out, fs) == [l |-> l, err |-> err, out |-> out, files |-> fs]

\* NewLogger of an earlier revision, which creates a missing log directory
\* (os.MkdirAll) and goes on to open the file in it
NewLogger_mkdir(config, fs) ==
    LET c == setDefaults(config)
        fileLevel == getLogLevel(LogLevelMap, c.FileLevel)
        consoleLevel == getLogLevel(LogLevelMap, c.ConsoleLevel)
        l0 == [FileLogger |-> NilPtr, ConsoleLogger |-> NilPtr, Config |-> c,
               FileLogLevel |-> fileLevel.rank,
               ConsoleLogLevel |-> consoleLevel.rank,
               LogLevelMap |-> LogLevelMap]
        l1(w) == [l0 EXCEPT !.FileLogger = w]
        withConsole(l) ==
            IF c.ConsoleOutput THEN [l EXCEPT !.ConsoleLogger = StdoutWriter] ELSE l
    IN  IF fileLevel.err # NoErr
        THEN NewLoggerResult(NilPtr, Err("invalid file log level", fileLevel.err),
                             <<Diag("Invalid file log level:")>>, fs)
        ELSE IF consoleLevel.err # NoErr
        THEN NewLoggerResult(NilPtr, Err("invalid console log level", consoleLevel.err),
                             <<Diag("Invalid console log level:")>>, fs)
        ELSE IF c.FilePath # s_empty
        THEN IF c.EnableRotation
             THEN NewLoggerResult(
                      withConsole(l1(RotatingWriter(c.FilePath, c.RotationConfig))),
                      NoErr, <<>>, fs)
             ELSE IF Dir(c.FilePath) \in ExistingDirs /\ ~CanOpen(c.FilePath, fs)
             THEN NewLoggerResult(NilPtr,
                      Err("failed to open log file", c.FilePath), <<>>, fs)
             ELSE NewLoggerResult(withConsole(l1(FileWriter(c.FilePath))),
                      NoErr, <<>>, fs \cup {c.FilePath})
        ELSE NewLoggerResult(withConsole(l0), NoErr, <<>>, fs)

\* NewLogger(config) run against the files fs
NewLogger(config, fs) ==
    LET c == setDefaults(config)
        fileLevel == getLogLevel(LogLevelMap, c.FileLevel)
        consoleLevel == getLogLevel(LogLevelMap, c.ConsoleLevel)
        l0 == [FileLogger |-> NilPtr, ConsoleLogger |-> NilPtr, Config |-> c,
               FileLogLevel |-> fileLevel.rank,
               ConsoleLogLevel |-> consoleLevel.rank,
               LogLevelMap |-> LogLevelMap]
        l1(w) == [l0 EXCEPT !.FileLogger = w]
        withConsole(l) ==
            IF c.ConsoleOutput THEN [l EXCEPT !.ConsoleLogger = StdoutWriter] ELSE l
    IN  IF fileLevel.err # NoErr
        THEN NewLoggerResult(NilPtr, Err("invalid file log level", fileLevel.err),
                             <<Diag("Invalid file log level:")>>, fs)
        ELSE IF consoleLevel.err # NoErr
        THEN NewLoggerResult(NilPtr, Err("invalid console log level", consoleLevel.err),
                             <<Diag("Invalid console log level:")>>, fs)
        ELSE IF c.FilePath # s_empty
        THEN IF Dir(c.FilePath) \notin ExistingDirs
             THEN NewLoggerResult(NilPtr,
                      Err("log directory does not exist", Dir(c.FilePath)), <<>>, fs)
             ELSE IF c.EnableRotation
             THEN NewLoggerResult(
                      withConsole(l1(RotatingWriter(c.FilePath, c.RotationConfig))),
                      NoErr, <<>>, fs)
             ELSE IF ~CanOpen(c.FilePath, fs)
             THEN NewLoggerResult(NilPtr,
                      Err("failed to open log file", c.FilePath), <<>>, fs)
             ELSE NewLoggerResult(withConsole(l1(FileWriter(c.FilePath))),
                      NoErr, <<>>, fs \cup {c.FilePath})
        ELSE NewLoggerResult(withConsole(l0), NoErr, <<>>, fs)

----------------------------------------------------------------------------
(* Logger.log.                                                             *)

\* msgLevel, ok := l.LogLevelMap[level]
msgLevel(l, level) ==
    IF level \in DOMAIN l.LogLevelMap THEN l.LogLevelMap[level] ELSE 0

\* logReturnsEarly that returns as soon as one threshold rejects the level
logReturnsEarly_either(l, level) ==
    \/ level \notin DOMAIN l.LogLevelMap /\ level # s_print
    \/ /\ level # s_print
       /\ (msgLevel(l, level) > l.FileLogLevel \/ msgLevel(l, level) > l.ConsoleLogLevel)

\* logReturnsEarly without the exemption of "print" from the table lookup
logReturnsEarly_noPrint(l, level) ==
    \/ level \notin DOMAIN l.LogLevelMap
    \/ /\ level # s_print
       /\ msgLevel(l, level) > l.FileLogLevel
       /\ msgLevel(l, level) > l.ConsoleLogLevel

\* the two early returns of log
logReturnsEarly(l, level) ==
    \/ level \notin DOMAIN l.LogLevelMap /\ level # s_print
    \/ /\ level # s_print
       /\ msgLevel(l, level) > l.FileLogLevel
       /\ msgLevel(l, level) > l.ConsoleLogLevel

\* logToFile with the threshold itself filtered out
logToFile_exclusive(l, level) ==
    /\ ~logReturnsEarly(l, level)
    /\ l.FileLogger # NilPtr
    /\ (level = s_print \/ msgLevel(l, level) < l.FileLogLevel)

\* logToFile with the comparison of the revision whose table ascends
logToFile_ascending(l, level) ==
    /\ ~logReturnsEarly(l, level)
    /\ l.FileLogger # NilPtr
    /\ (level = s_print \/ msgLevel(l, level) >= l.FileLogLevel)

\* log reaches l.FileLogger.Println(logEntry)
logToFile(l, level) ==
    /\ ~logReturnsEarly(l, level)
    /\ l.FileLogger # NilPtr
    /\ (level = s_print \/ msgLevel(l, level) <= l.FileLogLevel)

\* logToConsole that does not look at Config.ConsoleOutput
logToConsole_unguarded(l, level) ==
    /\ ~logReturnsEarly(l, level)
    /\ (level = s_print \/ msgLevel(l, level) <= l.ConsoleLogLevel)

\* log reaches l.ConsoleLogger.Println(colorFunc(logEntry))
logToConsole(l, level) ==
    /\ ~logReturnsEarly(l, level)
    /\ l.Config.ConsoleOutput
    /\ (level = s_print \/ msgLevel(l, level) <= l.ConsoleLogLevel)

\* one Println on a sink; ok is whether the underlying Write succeeded
FileWrite(l, level, ok) ==
    [ch |-> "file", kind |-> "log", level |-> level, path |-> l.FileLogger.path,
     ok |-> ok]
ConsoleWrite(l, level, ok) ==
    [ch |-> "stdout", kind |-> "log", level |-> level, ok |-> ok]

\* the file exists after a write through the file sink's writer: the plain
\* handle was opened by NewLogger, the rotating writer creates the file on
\* its first write
FilesAfterWrite(l, fs) ==
    IF l.FileLogger.w = "lumberjack" /\ Dir(l.FileLogger.path) \in WritableDirs
    THEN fs \cup {l.FileLogger.path}
    ELSE fs

\* the file sink's Write can succeed
FileWritable(l, fs) ==
    l.FileLogger.path \in FilesAfterWrite(l, fs)

Levels == {s_trace, s_debug, s_info, s_warning, s_error, s_fatal, s_print}
Shapes == {"plain", "f", "ln"}

\* DoLog in which a failed write to the file ends the call before the console
DoLog_abortOnFileError(p, l, level, shape) ==
    LET toFile == logToFile(l, level)
        toConsole == logToConsole(l, level)
    IN  \E fok, cok \in BOOLEAN :
            /\ toFile \/ fok
            /\ toConsole \/ cok
            /\ (toFile /\ ~FileWritable(l, files)) => ~fok
            /\ step' = [op |-> "log", p |-> p, level |-> level, shape |-> shape,
                        l |-> l,
                        out |-> (IF toFile THEN <<FileWrite(l, level, fok)>> ELSE <<>>)
                                \o (IF toConsole /\ fok
                                    THEN <<ConsoleWrite(l, level, cok)>> ELSE <<>>)]
            /\ files' = IF toFile THEN FilesAfterWrite(l, files) ELSE files

\* the body of l.log(level, ...) called by goroutine p through a method of
\* the given shape: the sinks it writes and what that leaves on disk
DoLog(p, l, level, shape) ==
    LET toFile == logToFile(l, level)
        toConsole == logToConsole(l, level)
    IN  \E fok, cok \in BOOLEAN :
            /\ toFile \/ fok
            /\ toConsole \/ cok
            /\ (toFile /\ ~FileWritable(l, files)) => ~fok
            /\ step' = [op |-> "log", p |-> p, level |-> level, shape |-> shape,
                        l |-> l,
                        out |-> (IF toFile THEN <<FileWrite(l, level, fok)>> ELSE <<>>)
                                \o (IF toConsole
                                    THEN <<ConsoleWrite(l, level, cok)>> ELSE <<>>)]
            /\ files' = IF toFile THEN FilesAfterWrite(l, files) ELSE files

----------------------------------------------------------------------------
(* The configurations and calls the application makes.                     *)

Capitalize(s) == [i \in DOMAIN s |-> IF i = 1 THEN ToUpperRune(s[i]) ELSE s[i]]
AlternateCase(s) == [i \in DOMAIN s |-> IF i % 2 = 0 THEN ToUpperRune(s[i]) ELSE s[i]]

LevelNames == {s_trace, s_debug, s_info, s_warning, s_error, s_fatal}
CasedNames == {ToUpper(n) : n \in LevelNames} \cup {Capitalize(n) : n \in LevelNames}
                 \cup {AlternateCase(n) : n \in LevelNames}
OtherStrings == {s_empty, s_print, <<"w","a","r","n">>, <<"i","n","f","o"," ">>,
                 <<"v","e","r","b","o","s","e">>}
IntLevels == {IntV(i) : i \in (0 - IntSpan)..(MaxIntLevel + IntSpan)}

LevelValues ==
    {NilPtr, FloatV} \cup IntLevels
        \cup {StrV(s) : s \in LevelNames \cup CasedNames \cup OtherStrings}

RotationSamples ==
    {RotationConfig(0, 0, 0, FALSE), RotationConfig(5, 3, 15, TRUE),
     RotationConfig(5, 0, 15, FALSE), RotationConfig(0 - 1, 3, 0, TRUE)}

FormatSamples == {s_empty, s_json, ToUpper(s_json)}
PathSamples == {s_empty, p_ok, p_missing, p_ro}

\* every pair of level names, with and without each sink
LevelPairConfigs ==
    {LogConfig(fp, s_standard, StrV(f), StrV(c), co, FALSE, RotationConfig(0, 0, 0, FALSE)) :
        fp \in {s_empty, p_ok}, f \in LevelNames, c \in LevelNames, co \in BOOLEAN}

\* integer levels for both sinks, both sinks on
IntPairConfigs ==
    {LogConfig(p_ok, s_standard, f, c, TRUE, FALSE, RotationConfig(0, 0, 0, FALSE)) :
        f \in IntLevels, c \in {IntV(0), IntV(MaxIntLevel)}}

\* every kind of level value for one sink, the other left to its default
LevelValueConfigs ==
    {LogConfig(p_ok, s_standard, f, NilPtr, TRUE, FALSE, RotationConfig(0, 0, 0, FALSE)) :
        f \in LevelValues}
    \cup
    {LogConfig(p_ok, s_standard, NilPtr, c, TRUE, FALSE, RotationConfig(0, 0, 0, FALSE)) :
        c \in LevelValues}

\* formats, paths, sinks and rotation settings with the levels left unset
SinkConfigs ==
    {LogConfig(fp, fmt, NilPtr, NilPtr, co, rot, rc) :
        fp \in PathSamples, fmt \in FormatSamples, co \in BOOLEAN, rot \in BOOLEAN,
        rc \in RotationSamples}

\* a log file that cannot be set up together with a level that is invalid
FaultPairConfigs ==
    {LogConfig(fp, s_standard, f, StrV(s_info), TRUE, rot, RotationConfig(0, 0, 0, FALSE)) :
        fp \in {p_missing, p_ro}, f \in {StrV(s_info), StrV(<<"w", "a", "r", "n">>), FloatV},
        rot \in BOOLEAN}
    \cup
    {LogConfig(p_missing, s_standard, NilPtr, StrV(s_print), TRUE, FALSE,
               RotationConfig(0, 0, 0, FALSE))}

Configs ==
    LevelPairConfigs \cup IntPairConfigs \cup LevelValueConfigs \cup SinkConfigs
        \cup FaultPairConfigs

----------------------------------------------------------------------------
(* The application's own Logger: l, err := NewLogger(cfg); l.Info(...) ... *)

Idle == [fn |-> "none"]

NewLoggerCall(p, cfg) ==
    /\ exited = NotExited
    /\ pc[p] = "idle"
    /\ ~built
    /\ LET r == NewLogger(cfg, files)
       IN  /\ lg' = r.l
           /\ lgErr' = r.err
           /\ files' = r.files
           /\ step' = [op |-> "NewLogger", p |-> p, cfg |-> cfg, l |-> r.l,
                       err |-> r.err, out |-> r.out]
    /\ built' = TRUE
    /\ UNCHANGED <<env, logInstance, mu, pc, loc, calls, exited>>

\* l.Trace .. l.Error, l.Print and their f and ln forms: l.log(level, ...)
\* l.Fatal, l.Fatalf, l.Fatalln: l.log("fatal", ...) and then os.Exit(1)
InstLog(p, level, shape) ==
    /\ exited = NotExited
    /\ pc[p] = "idle"
    /\ lg # NilPtr
    /\ calls < MaxCalls
    /\ calls' = calls + 1
    /\ DoLog(p, lg, level, shape)
    /\ pc' = [pc EXCEPT ![p] = IF level = s_fatal THEN "exit" ELSE "idle"]
    /\ UNCHANGED <<env, lg, lgErr, built, logInstance, mu, loc, exited>>

\* os.Exit(1) at the end of a fatal method
Exit(p) ==
    /\ exited = NotExited
    /\ pc[p] = "exit"
    /\ exited' = 1
    /\ step' = [op |-> "exit", p |-> p, out |-> <<>>]
    /\ pc' = [pc EXCEPT ![p] = "done"]
    /\ UNCHANGED <<env, lg, lgErr, built, logInstance, mu, loc, files, calls>>

Init ==
    /\ lg = NilPtr
    /\ lgErr = NoErr
    /\ built = FALSE
    /\ logInstance = NilPtr
    /\ mu = 0
    /\ pc = [p \in Procs |-> "idle"]
    /\ loc = [p \in Procs |-> Idle]
    /\ files = {}
    /\ step = [op |-> "start", out |-> <<>>]
    /\ calls = 0
    /\ exited = NotExited
    /\ env = HostEnv

\* one goroutine that builds a Logger and uses its methods
Next ==
    \/ \E cfg \in Configs : NewLoggerCall(Main, cfg)
    \/ \E level \in Levels, shape \in Shapes : InstLog(Main, level, shape)
    \/ Exit(Main)

Spec == Init /\ [][Next]_vars

----------------------------------------------------------------------------
(* The registry: InitLogger, ResetLogger, the lazy default initialisation  *)
(* and the package-level functions, called from several goroutines.  A     *)
(* goroutine takes one step per access to logInstance or mu; statements    *)
(* that touch neither are part of the step they follow.                    *)

\* the configurations the application passes to InitLogger
RegConfigs ==
    {LogConfig(s_empty, s_empty, NilPtr, StrV(s_debug), TRUE, FALSE,
               RotationConfig(0, 0, 0, FALSE)),
     LogConfig(p_ok, s_json, StrV(s_info), StrV(s_error), TRUE, FALSE,
               RotationConfig(0, 0, 0, FALSE)),
     LogConfig(s_empty, s_empty, StrV(<<"v","e","r","b","o","s","e">>), NilPtr, TRUE,
               FALSE, RotationConfig(0, 0, 0, FALSE))}

\* the package-level logging functions the goroutines call: Info, and
\* Fatal, Fatalf and Fatalln
RegCalls ==
    {[level |-> s_info, shape |-> "plain"], [level |-> s_fatal, shape |-> "plain"],
     [level |-> s_fatal, shape |-> "f"], [level |-> s_fatal, shape |-> "ln"]}

RegLevels == {c.level : c \in RegCalls}

RegShapes(level) == {c.shape : c \in {d \in RegCalls : d.level = level}}

Tau == [op |-> "tau", out |-> <<>>]

\* InitLogger(cfg) is called and blocks on mu.Lock()
InitLoggerCall(p, cfg) ==
    /\ exited = NotExited
    /\ pc[p] = "idle"
    /\ pc' = [pc EXCEPT ![p] = "init_lock"]
    /\ loc' = [loc EXCEPT ![p] = [fn |-> "InitLogger", cfg |-> cfg]]
    /\ step' = Tau
    /\ UNCHANGED <<env, lg, lgErr, built, logInstance, mu, files, calls, exited>>

\* InitLogger: mu.Lock() succeeds; if logInstance != nil { logInstance = nil }
InitLock(p) ==
    /\ exited = NotExited
    /\ pc[p] = "init_lock"
    /\ mu = 0
    /\ mu' = p
    /\ logInstance' = NilPtr
    /\ pc' = [pc EXCEPT ![p] = "init_new"]
    /\ step' = [op |-> "discard", p |-> p, old |-> logInstance, out |-> <<>>]
    /\ UNCHANGED <<env, lg, lgErr, built, loc, files, calls, exited>>

\* InitLogger that falls back to the default instance when NewLogger fails
InitInstall_fallback(p) ==
    /\ exited = NotExited
    /\ pc[p] = "init_new"
    /\ mu = p
    /\ LET r == NewLogger(loc[p].cfg, files)
           lazy == loc[p].fn # "InitLogger"
       IN  /\ logInstance' = IF r.err # NoErr THEN NewLogger(defaultConfig, files).l
                             ELSE r.l
           /\ files' = r.files
           /\ step' = [op |-> "InitLogger", p |-> p, cfg |-> loc[p].cfg, l |-> r.l,
                       err |-> r.err, lazy |-> lazy,
                       out |-> r.out
                               \o (IF r.err # NoErr
                                   THEN <<Diag("Logger initialization error:")>>
                                   ELSE <<>>)
                               \o (IF r.err # NoErr /\ lazy
                                   THEN <<Diag("Logger initialization failed with default settings:")>>
                                   ELSE <<>>)]
           /\ pc' = [pc EXCEPT ![p] = IF lazy THEN "check" ELSE "idle"]
           /\ loc' = [loc EXCEPT ![p] = IF lazy THEN @ ELSE Idle]
    /\ mu' = 0
    /\ UNCHANGED <<env, lg, lgErr, built, calls, exited>>

\* InitLogger that builds the instance from the default configuration
\* whatever configuration it was given
InitInstall_default(p) ==
    /\ exited = NotExited
    /\ pc[p] = "init_new"
    /\ mu = p
    /\ LET r == NewLogger(defaultConfig, files)
           lazy == loc[p].fn # "InitLogger"
       IN  /\ logInstance' = r.l
           /\ files' = r.files
           /\ step' = [op |-> "InitLogger", p |-> p, cfg |-> loc[p].cfg, l |-> r.l,
                       err |-> r.err, lazy |-> lazy, out |-> r.out]
           /\ pc' = [pc EXCEPT ![p] = IF lazy THEN "check" ELSE "idle"]
           /\ loc' = [loc EXCEPT ![p] = IF lazy THEN @ ELSE Idle]
    /\ mu' = 0
    /\ UNCHANGED <<env, lg, lgErr, built, calls, exited>>

\* InitLogger: logInstance, err = NewLogger(config), the diagnostic on an
\* error, the deferred mu.Unlock() and the return; when the caller is
\* ensureLoggerInitialized, its own diagnostic follows
InitInstall(p) ==
    /\ exited = NotExited
    /\ pc[p] = "init_new"
    /\ mu = p
    /\ LET r == NewLogger(loc[p].cfg, files)
           lazy == loc[p].fn # "InitLogger"
       IN  /\ logInstance' = r.l
           /\ files' = r.files
           /\ step' = [op |-> "InitLogger", p |-> p, cfg |-> loc[p].cfg, l |-> r.l,
                       err |-> r.err, lazy |-> lazy,
                       out |-> r.out
                               \o (IF r.err # NoErr
                                   THEN <<Diag("Logger initialization error:")>>
                                   ELSE <<>>)
                               \o (IF r.err # NoErr /\ lazy
                                   THEN <<Diag("Logger initialization failed with default settings:")>>
                                   ELSE <<>>)]
           /\ pc' = [pc EXCEPT ![p] = IF lazy THEN "check" ELSE "idle"]
           /\ loc' = [loc EXCEPT ![p] = IF lazy THEN @ ELSE Idle]
    /\ mu' = 0
    /\ UNCHANGED <<env, lg, lgErr, built, calls, exited>>

\* a ResetLogger that puts the default instance in place of the cleared one
ResetLogger_reinit(p) ==
    /\ exited = NotExited
    /\ pc[p] = "idle"
    /\ mu = 0
    /\ logInstance' = NewLogger(defaultConfig, files).l
    /\ step' = [op |-> "ResetLogger", p |-> p, out |-> <<>>]
    /\ UNCHANGED <<env, lg, lgErr, built, mu, pc, loc, files, calls, exited>>

\* ResetLogger: mu.Lock(); logInstance = nil; mu.Unlock()
ResetLogger(p) ==
    /\ exited = NotExited
    /\ pc[p] = "idle"
    /\ mu = 0
    /\ logInstance' = NilPtr
    /\ step' = [op |-> "ResetLogger", p |-> p, out |-> <<>>]
    /\ UNCHANGED <<env, lg, lgErr, built, mu, pc, loc, files, calls, exited>>

\* the unlocked test of ensureLoggerInitialized, with which every
\* package-level function starts
Ensure(p, fn, level) ==
    /\ exited = NotExited
    /\ pc[p] = "idle"
    /\ pc' = [pc EXCEPT ![p] = IF logInstance = NilPtr THEN "init_lock" ELSE "check"]
    /\ loc' = [loc EXCEPT ![p] = [fn |-> fn, level |-> level, cfg |-> defaultConfig,
                                  seen |-> NilPtr]]
    /\ step' = Tau
    /\ UNCHANGED <<env, lg, lgErr, built, logInstance, mu, files, calls, exited>>

\* Trace .. Fatal, Print and their f and ln forms; which of the three forms
\* it is only matters to the method the function ends up calling
PkgLogCall(p, level) == Ensure(p, "log", level)

GetLoggerConfigCall(p) == Ensure(p, "GetLoggerConfig", s_empty)

\* if logInstance != nil { ... }: the function returns when the test fails
PkgCheck(p) ==
    /\ exited = NotExited
    /\ pc[p] = "check"
    /\ IF logInstance = NilPtr
       THEN /\ pc' = [pc EXCEPT ![p] = "idle"]
            /\ loc' = [loc EXCEPT ![p] = Idle]
            /\ step' = [op |-> "return", p |-> p, fn |-> loc[p].fn,
                        level |-> loc[p].level, cfg |-> ZeroConfig, out |-> <<>>]
       ELSE /\ pc' = [pc EXCEPT ![p] = "invoke"]
            /\ loc' = [loc EXCEPT ![p] = [@ EXCEPT !.seen = logInstance]]
            /\ step' = Tau
    /\ UNCHANGED <<env, lg, lgErr, built, logInstance, mu, files, calls, exited>>

\* the value the second, unsynchronised read of logInstance yields: what is
\* stored now, or what the test read if the build keeps it in a register
SecondRead(p) == {logInstance, loc[p].seen}

\* logInstance.Method(v...) and return logInstance.Config: a nil receiver
\* panics on its first field access
PkgInvoke(p) ==
    /\ exited = NotExited
    /\ pc[p] = "invoke"
    /\ \E l \in SecondRead(p) :
          IF l = NilPtr
          THEN /\ exited' = 2
               /\ step' = [op |-> "panic", p |-> p, fn |-> loc[p].fn,
                           level |-> loc[p].level, out |-> <<>>]
               /\ pc' = [pc EXCEPT ![p] = "done"]
               /\ UNCHANGED <<loc, files>>
          ELSE IF loc[p].fn = "GetLoggerConfig"
          THEN /\ step' = [op |-> "return", p |-> p, fn |-> loc[p].fn,
                           level |-> loc[p].level, cfg |-> l.Config, out |-> <<>>]
               /\ pc' = [pc EXCEPT ![p] = "idle"]
               /\ loc' = [loc EXCEPT ![p] = Idle]
               /\ UNCHANGED <<files, exited>>
          ELSE /\ \E shape \in RegShapes(loc[p].level) :
                       DoLog(p, l, loc[p].level, shape)
               /\ pc' = [pc EXCEPT ![p] = IF loc[p].level = s_fatal THEN "exit"
                                          ELSE "idle"]
               /\ loc' = [loc EXCEPT ![p] = Idle]
               /\ UNCHANGED exited
    /\ UNCHANGED <<env, lg, lgErr, built, logInstance, mu, calls>>

\* goroutines that share the registry
NextReg ==
    \E p \in Procs :
        \/ \E cfg \in RegConfigs : InitLoggerCall(p, cfg)
        \/ InitLock(p)
        \/ InitInstall(p)
        \/ ResetLogger(p)
        \/ \E level \in RegLevels : PkgLogCall(p, level)
        \/ GetLoggerConfigCall(p)
        \/ PkgCheck(p)
        \/ PkgInvoke(p)
        \/ Exit(p)

SpecReg == Init /\ [][NextReg]_vars

\* the steps goroutine p takes inside a call it has started
Progress(p) == InitInstall(p) \/ PkgCheck(p) \/ PkgInvoke(p)

\* the registry used without the fatal functions, which end the process
NextRegLive ==
    \E p \in Procs :
        \/ \E cfg \in RegConfigs : InitLoggerCall(p, cfg)
        \/ InitLock(p)
        \/ InitInstall(p)
        \/ ResetLogger(p)
        \/ PkgLogCall(p, s_info)
        \/ GetLoggerConfigCall(p)
        \/ PkgCheck(p)
        \/ PkgInvoke(p)

\* the scheduler runs every goroutine that can run, and sync.Mutex hands
\* the lock to a goroutine that keeps waiting for it (starvation mode)
SpecRegLive ==
    /\ Init /\ [][NextRegLive]_vars
    /\ \A p \in Procs : WF_vars(Progress(p)) /\ SF_vars(InitLock(p))

-----------------------------------------------------------------------------
(* The text of a record.  A text is a sequence of symbols: one-character   *)
(* strings, and a few symbols that stand for something longer (a           *)
(* timestamp, a path component, a byte that is not valid UTF-8).           *)

\* a byte that does not belong to any UTF-8 sequence, and the rune U+FFFD
InvalidByte == "0xFF"
ReplacementChar == "U+FFFD"

DigitChars == <<"0", "1", "2", "3", "4", "5", "6", "7", "8", "9">>

\* strconv.Itoa for a number that is not negative
RECURSIVE Itoa(_)
Itoa(n) ==
    IF n < 10 THEN <<DigitChars[n + 1]>>
    ELSE Itoa(n \div 10) \o <<DigitChars[(n % 10) + 1]>>

\* an operand under the verb %v
FormatOperand(a) == IF a.t = "string" THEN a.s ELSE Itoa(a.i)

\* a Sprint that separates any two operands, as Sprintln does
RECURSIVE SprintSpacedFrom(_, _)
SprintSpacedFrom(v, i) ==
    IF i > Len(v) THEN <<>>
    ELSE (IF i > 1 THEN <<" ">> ELSE <<>>)
         \o FormatOperand(v[i]) \o SprintSpacedFrom(v, i + 1)

Sprint_spaced(v) == SprintSpacedFrom(v, 1)

\* fmt.Sprint: a space goes between two operands when neither is a string
RECURSIVE SprintFrom(_, _)
SprintFrom(v, i) ==
    IF i > Len(v) THEN <<>>
    ELSE (IF i > 1 /\ v[i - 1].t # "string" /\ v[i].t # "string"
          THEN <<" ">> ELSE <<>>)
         \o FormatOperand(v[i]) \o SprintFrom(v, i + 1)

Sprint(v) == SprintFrom(v, 1)

\* fmt.Sprintln: a space goes between any two operands, a newline at the end
RECURSIVE SprintlnFrom(_, _)
SprintlnFrom(v, i) ==
    IF i > Len(v) THEN <<"\n">>
    ELSE (IF i > 1 THEN <<" ">> ELSE <<>>)
         \o FormatOperand(v[i]) \o SprintlnFrom(v, i + 1)

Sprintln(v) == SprintlnFrom(v, 1)

\* fmt.Sprintf for formats whose only verb is %v: each verb takes the next
\* operand, a verb without operand prints as %!v(MISSING)
RECURSIVE SprintfFrom(_, _, _, _)
SprintfFrom(format, i, v, k) ==
    IF i > Len(format) THEN <<>>
    ELSE IF format[i] = "%" /\ i < Len(format) /\ format[i + 1] = "v"
    THEN (IF k <= Len(v) THEN FormatOperand(v[k]) ELSE <<"%!v(MISSING)">>)
         \o SprintfFrom(format, i + 2, v, k + 1)
    ELSE <<format[i]>> \o SprintfFrom(format, i + 1, v, k)

Sprintf(format, v) == SprintfFrom(format, 1, v, 1)

\* encoding/json on the characters of a string: quote, backslash and
\* newline are escaped, "<" is written as the escape of U+003C, and a byte
\* that is not valid UTF-8 as the escape of U+FFFD
EncodeChar(c) ==
    CASE c = "\"" -> <<"\\", "\"">>
      [] c = "\\" -> <<"\\", "\\">>
      [] c = "\n" -> <<"\\", "n">>
      [] c = "<" -> <<"\\", "u", "0", "0", "3", "c">>
      [] c = InvalidByte -> <<"\\", "u", "f", "f", "f", "d">>
      [] OTHER -> <<c>>

RECURSIVE EncodeFrom(_, _)
EncodeFrom(t, i) ==
    IF i > Len(t) THEN <<>> ELSE EncodeChar(t[i]) \o EncodeFrom(t, i + 1)

\* the text between the quotes of the JSON string json.Marshal writes for t
EncodeString(t) == EncodeFrom(t, 1)

\* json.Marshal of a value of logData
JsonValue(x) ==
    IF x.t = "string" THEN [t |-> "string", text |-> EncodeString(x.s)]
    ELSE [t |-> "number", n |-> x.i]

\* json.Marshal of a map[string]interface{}: one object, a member per key
JsonMarshal(m) == [k \in DOMAIN m |-> JsonValue(m[k])]

-----------------------------------------------------------------------------
(* The caller's file and line.  An absolute path is the sequence of its    *)
(* components after the root symbol "/".                                   *)

\* filepath.Dir of an absolute directory: the root is its own parent
ParentDir(dir) == IF Len(dir) <= 1 THEN dir ELSE SubSeq(dir, 1, Len(dir) - 1)

\* the loop of findProjectDir, from dir upwards; the empty path is ""
RECURSIVE findProjectDirFrom(_, _)
findProjectDirFrom(dir, mods) ==
    IF dir \in mods THEN dir
    ELSE IF ParentDir(dir) = dir THEN <<>>
    ELSE findProjectDirFrom(ParentDir(dir), mods)

\* findProjectDir that looks for go.mod in the working directory only
findProjectDir_cwdOnly(e) == IF e.cwd # NoCwd /\ e.cwd \in e.mods THEN e.cwd ELSE <<>>

findProjectDir(e) == IF e.cwd = NoCwd THEN <<>> ELSE findProjectDirFrom(e.cwd, e.mods)

\* filepath.Base
Base(path) == <<path[Len(path)]>>

\* length of the longest common prefix of two paths
RECURSIVE CommonPrefix(_, _, _)
CommonPrefix(a, b, k) ==
    IF k < Len(a) /\ k < Len(b) /\ a[k + 1] = b[k + 1]
    THEN CommonPrefix(a, b, k + 1) ELSE k

\* filepath.Rel of two absolute paths: ".." for each component of base that
\* target does not share, then the rest of target
Rel(base, target) ==
    LET k == CommonPrefix(base, target, 0)
    IN  [i \in 1..(Len(base) - k) |-> ".."] \o SubSeq(target, k + 1, Len(target))

trimPathToProject(filePath, e) ==
    LET projectDir == findProjectDir(e)
    IN  IF projectDir = <<>> THEN Base(filePath) ELSE Rel(projectDir, filePath)

\* a relative path as text: its components with separators between them
RECURSIVE PathText(_)
PathText(path) ==
    IF Len(path) = 0 THEN <<".">>
    ELSE IF Len(path) = 1 THEN path
    ELSE <<path[1], "/">> \o PathText(Tail(path))

Frame(fn, file, line) == [fn |-> fn, file |-> file, line |-> line]

\* the frames of the library: log, the Logger method that calls it, and the
\* package-level function that calls the method
f_lib == <<"/", "go", "pkg", "mod", "logger", "logger.go">>
LogFrame == Frame("Logger.log", f_lib, 784)
MethodFrame == Frame("Logger.Method", f_lib, 1144)
PkgFrame == Frame("Function", f_lib, 913)

\* the stack runtime.Caller walks when the application's frames are app and
\* the call went through a method of a Logger or a package-level function
CallStack(via, app) ==
    IF via = "package" THEN <<LogFrame, MethodFrame, PkgFrame>> \o app
    ELSE <<LogFrame, MethodFrame>> \o app

\* runtime.Caller(skip) called in the function of the first frame
Caller(skip, stack) ==
    IF skip + 1 <= Len(stack)
    THEN [ok |-> TRUE, file |-> stack[skip + 1].file, line |-> stack[skip + 1].line]
    ELSE [ok |-> FALSE, file |-> <<>>, line |-> 0]

CallerSkip == 3

-----------------------------------------------------------------------------
(* Logger.log: the record and what each sink is handed.                    *)

\* the arguments a method of the given shape passes to log
LogArgs(call) ==
    IF call.shape = "f" THEN <<StrV(Sprintf(call.format, call.args))>>
    ELSE IF call.shape = "ln" THEN <<StrV(Sprintln(call.args))>>
    ELSE call.args

\* file and line as log resolves them
CallerSite(stack, e) ==
    LET c == Caller(CallerSkip, stack)
    IN  IF c.ok THEN [file |-> PathText(trimPathToProject(c.file, e)), line |-> c.line]
        ELSE [file |-> <<"unknown">>, line |-> 0]

\* prefix := fmt.Sprintf("[%s] [PID: %d] [%s:%d] [%s] ", ...)
Prefix(timestamp, pid, file, line, level) ==
    <<"[">> \o timestamp \o <<"]", " ", "[", "P", "I", "D", ":", " ">> \o Itoa(pid)
        \o <<"]", " ", "[">> \o file \o <<":">> \o Itoa(line)
        \o <<"]", " ", "[">> \o ToUpper(level) \o <<"]", " ">>

\* logEntry: the marshalled logData when the format is json in any casing,
\* else the prefix followed by fmt.Sprint(v...)
LogEntry(l, level, v, stack, e, now) ==
    LET site == CallerSite(stack, e)
    IN  IF ToLower(l.Config.Format) = s_json
        THEN [fmt |-> "json",
              obj |-> JsonMarshal([timestamp |-> StrV(now), level |-> StrV(level),
                                   pid |-> IntV(e.pid), file |-> StrV(site.file),
                                   line |-> IntV(site.line),
                                   message |-> StrV(Sprint(v))])]
        ELSE [fmt |-> "text",
              text |-> Prefix(now, e.pid, site.file, site.line, level) \o Sprint(v)]

\* the colour log picks for the level; white for any other level
ColorOf(level) ==
    CASE level = s_trace -> "FgCyan"
      [] level = s_debug -> "FgBlue"
      [] level = s_info -> "FgGreen"
      [] level = s_warning -> "FgYellow"
      [] level = s_error -> "FgRed"
      [] level = s_fatal -> "FgHiRed"
      [] OTHER -> "FgWhite"

\* color.New(c).SprintFunc() applied to the entry: the entry between the
\* escape sequences of c, or the entry itself when colour is off
Colorize(c, entry, e) == [style |-> IF e.noColor THEN "none" ELSE c, entry |-> entry]

\* a file sink that is handed what the console is handed
FilePrintln_colored(l, level, entry, ok) ==
    [ch |-> "file", kind |-> "log", level |-> level, path |-> l.FileLogger.path,
     ok |-> ok, data |-> [style |-> ColorOf(level), entry |-> entry]]

\* l.FileLogger.Println(logEntry) and l.ConsoleLogger.Println(colorFunc(logEntry))
FilePrintln(l, level, entry, ok) ==
    [ch |-> "file", kind |-> "log", level |-> level, path |-> l.FileLogger.path,
     ok |-> ok, data |-> [style |-> "none", entry |-> entry]]
ConsolePrintln(l, level, entry, e, ok) ==
    [ch |-> "stdout", kind |-> "log", level |-> level, ok |-> ok,
     data |-> Colorize(ColorOf(level), entry, e)]

\* a call of a Logger method or of a package-level function by goroutine p,
\* from the application frames app, at the time now
LogCall(p, l, call, via, app, now) ==
    LET level == call.level
        toFile == logToFile(l, level)
        toConsole == logToConsole(l, level)
        entry == IF logReturnsEarly(l, level) THEN NilPtr
                 ELSE LogEntry(l, level, LogArgs(call), CallStack(via, app), env, now)
    IN  \E fok, cok \in BOOLEAN :
            /\ toFile \/ fok
            /\ toConsole \/ cok
            /\ (toFile /\ ~FileWritable(l, files)) => ~fok
            /\ step' = [op |-> "log", p |-> p, level |-> level, shape |-> call.shape,
                        l |-> l, call |-> call, via |-> via, app |-> app, now |-> now,
                        entry |-> entry,
                        out |-> (IF toFile THEN <<FilePrintln(l, level, entry, fok)>>
                                 ELSE <<>>)
                                \o (IF toConsole
                                    THEN <<ConsolePrintln(l, level, entry, env, cok)>>
                                    ELSE <<>>)]
            /\ files' = IF toFile THEN FilesAfterWrite(l, files) ELSE files

-----------------------------------------------------------------------------
(* One goroutine that logs through a Logger of its own and through the     *)
(* registry, in each environment.                                          *)

Call(level, shape, format, args) == [level |-> level, shape |-> shape, format |-> format, args |-> args]

t_hello == <<"h", "e", "l", "l", "o">>
t_quoted == <<"s", "a", "y", " ", "\"", "h", "i", "\"", " ", "\\", "<", "\n">>
t_bytes == <<"i", "d", InvalidByte>>
t_format == <<"n", "=", "%", "v", " ", "%", "v">>

FmtCalls ==
    {Call(s_info, "plain", <<>>, <<StrV(t_hello), IntV(42)>>),
     Call(s_info, "plain", <<>>, <<IntV(1), IntV(2), StrV(t_hello), IntV(3)>>),
     Call(s_error, "plain", <<>>, <<StrV(t_hello), StrV(t_hello)>>),
     Call(s_warning, "plain", <<>>, <<StrV(t_quoted)>>),
     Call(s_info, "plain", <<>>, <<StrV(t_bytes)>>),
     Call(s_trace, "plain", <<>>, <<>>),
     Call(s_debug, "f", t_format, <<IntV(7), StrV(t_hello)>>),
     Call(s_info, "f", t_format, <<IntV(7)>>),
     Call(s_info, "ln", <<>>, <<StrV(t_hello), IntV(1)>>),
     Call(s_print, "plain", <<>>, <<IntV(10), IntV(20)>>),
     Call(s_fatal, "plain", <<>>, <<StrV(t_hello)>>)}

f_main == <<"/", "home", "app", "cmd", "main.go">>
f_handler == <<"/", "home", "app", "svc", "handler.go">>
f_proc == <<"/", "go", "src", "runtime", "proc.go">>
f_asm == <<"/", "go", "src", "runtime", "asm_amd64.s">>

RuntimeMain == Frame("runtime.main", f_proc, 271)
Goexit == Frame("runtime.goexit", f_asm, 1650)

\* the application's frames at a call, innermost first: the call is in
\* main.main, in a function main.main calls, or is the go statement itself
AppStacks ==
    {<<Frame("main.main", f_main, 12), RuntimeMain, Goexit>>,
     <<Frame("svc.Handle", f_handler, 40), Frame("main.main", f_main, 15),
       RuntimeMain, Goexit>>,
     <<Goexit>>}

Vias == {"method", "package"}

Nows == {<<"2024-12-01T10:00:00Z">>}

FmtConfigs ==
    {LogConfig(p_ok, s_json, StrV(s_info), StrV(s_info), TRUE, FALSE,
               RotationConfig(0, 0, 0, FALSE)),
     LogConfig(p_ok, s_standard, StrV(s_trace), StrV(s_warning), TRUE, FALSE,
               RotationConfig(0, 0, 0, FALSE)),
     LogConfig(s_empty, ToUpper(s_json), StrV(s_debug), StrV(s_debug), TRUE, FALSE,
               RotationConfig(0, 0, 0, FALSE))}

\* l.Info(...) on the application's Logger, or logger.Info(...) with the
\* instance installed in the registry
FmtLog(p, call, via, app, now) ==
    /\ exited = NotExited
    /\ pc[p] = "idle"
    /\ lg # NilPtr /\ logInstance # NilPtr
    /\ calls < MaxCalls
    /\ calls' = calls + 1
    /\ LogCall(p, IF via = "package" THEN logInstance ELSE lg, call, via, app, now)
    /\ pc' = [pc EXCEPT ![p] = IF call.level = s_fatal THEN "exit" ELSE "idle"]
    /\ UNCHANGED <<env, lg, lgErr, built, logInstance, mu, loc, exited>>

\* the application has called InitLogger(cfg) and NewLogger(cfg)
InitFmt ==
    /\ \E cfg \in FmtConfigs :
          /\ lg = NewLogger(cfg, {}).l
          /\ logInstance = lg
          /\ files = NewLogger(cfg, {}).files
    /\ lgErr = NoErr
    /\ built = TRUE
    /\ mu = 0
    /\ pc = [p \in Procs |-> "idle"]
    /\ loc = [p \in Procs |-> Idle]
    /\ step = [op |-> "start", out |-> <<>>]
    /\ calls = 0
    /\ exited = NotExited
    /\ env \in Envs

\* every call from one place, and one call from every place
FmtSites ==
    {<<call, "method", <<Frame("main.main", f_main, 12), RuntimeMain, Goexit>>>> :
        call \in FmtCalls}
    \cup {<<Call(s_error, "plain", <<>>, <<StrV(t_hello), IntV(42)>>), via, app>> :
              via \in Vias, app \in AppStacks}

NextFmt ==
    \/ \E site \in FmtSites, now \in Nows :
          FmtLog(Main, site[1], site[2], site[3], now)
    \/ Exit(Main)

SpecFmt == InitFmt /\ [][NextFmt]_vars

----------------------------------------------------------------------------
(* Vocabulary of the properties.                                           *)

\* the severities from least to most severe
SeverityOrder == <<s_trace, s_debug, s_info, s_warning, s_error, s_fatal>>
Severity(name) == CHOOSE i \in DOMAIN SeverityOrder : SeverityOrder[i] = name

\* the level whose rank in l's table is r
NameOfRank(l, r) == CHOOSE n \in DOMAIN l.LogLevelMap : l.LogLevelMap[n] = r

\* the severity at which a sink of l starts to accept records
FileThreshold(l) == Severity(NameOfRank(l, l.FileLogLevel))
ConsoleThreshold(l) == Severity(NameOfRank(l, l.ConsoleLogLevel))

\* the most recent statement was a log call that issued a write on ch
Wrote(ch) ==
    \E i \in DOMAIN step.out : step.out[i].kind = "log" /\ step.out[i].ch = ch

FileSinkConfigured(l) == l.Config.FilePath # s_empty
ConsoleEnabled(l) == l.Config.ConsoleOutput

\* a and b are the same string up to the case of ASCII letters
EqualFold(a, b) ==
    /\ Len(a) = Len(b)
    /\ \A i \in DOMAIN a :
          \/ a[i] = b[i]
          \/ \E k \in DOMAIN UpperLetters :
                {a[i], b[i]} = {UpperLetters[k], LowerLetters[k]}

\* the level name a string denotes, compared without regard to case
IsLevelName(s) == \E n \in LevelNames : EqualFold(s, n)
LevelNameOf(s) == CHOOSE n \in LevelNames : EqualFold(s, n)

\* README, "Log Levels": the level each integer stands for
DocumentedName(i) == SeverityOrder[i + 1]

----------------------------------------------------------------------------
(* Properties.                                                             *)

\* C1: a level-method call at severity s is written to the file iff a file
\* sink is configured and s is at least as severe as the file threshold, and
\* to the console iff console output is enabled and s is at least as severe
\* as the console threshold; neither outcome depends on the other threshold.
C1_LevelFilter ==
    (step.op = "log" /\ step.level \in LevelNames) =>
        /\ Wrote("file") <=>
              (FileSinkConfigured(step.l)
               /\ Severity(step.level) >= FileThreshold(step.l))
        /\ Wrote("stdout") <=>
              (ConsoleEnabled(step.l)
               /\ Severity(step.level) >= ConsoleThreshold(step.l))

\* a call below the console threshold and at the file threshold: the file
\* gets the record, the console does not
C1_Witness ==
    /\ step.op = "log" /\ step.level = s_info
    /\ FileSinkConfigured(step.l) /\ ConsoleEnabled(step.l)
    /\ FileThreshold(step.l) = Severity(s_info)
    /\ ConsoleThreshold(step.l) = Severity(s_error)
    /\ Wrote("file") /\ ~Wrote("stdout")

\* C2: Print, Printf and Println write to every enabled sink whatever the
\* two thresholds are.
C2_PrintAlwaysWritten ==
    (step.op = "log" /\ step.level = s_print) =>
        /\ Wrote("file") <=> FileSinkConfigured(step.l)
        /\ Wrote("stdout") <=> ConsoleEnabled(step.l)

\* Println on a Logger whose two thresholds are both fatal
C2_Witness ==
    /\ step.op = "log" /\ step.level = s_print /\ step.shape = "ln"
    /\ FileThreshold(step.l) = Severity(s_fatal)
    /\ ConsoleThreshold(step.l) = Severity(s_fatal)
    /\ Wrote("file") /\ Wrote("stdout")

\* C3: a level given as one of the documented numbers 0..5 resolves to the
\* same rank as the level name documented for that number.
C3_NumberMatchesName ==
    (step.op = "NewLogger" /\ step.l # NilPtr) =>
        /\ (step.cfg.FileLevel.t = "int" /\ step.cfg.FileLevel.i \in 0..5) =>
              step.l.FileLogLevel
                  = step.l.LogLevelMap[DocumentedName(step.cfg.FileLevel.i)]
        /\ (step.cfg.ConsoleLevel.t = "int" /\ step.cfg.ConsoleLevel.i \in 0..5) =>
              step.l.ConsoleLogLevel
                  = step.l.LogLevelMap[DocumentedName(step.cfg.ConsoleLevel.i)]

\* C4: in the level table of every Logger the rank strictly increases with
\* severity, and the table stays as NewLogger built it.
C4_RankIncreasesWithSeverity ==
    lg # NilPtr =>
        /\ \A i, j \in DOMAIN SeverityOrder :
              i < j => lg.LogLevelMap[SeverityOrder[i]] < lg.LogLevelMap[SeverityOrder[j]]
        /\ lg.LogLevelMap = LogLevelMap

\* C5: an integer level outside 0..5 makes NewLogger return an error and no
\* Logger.
C5_OutOfRangeRejected ==
    (/\ step.op = "NewLogger"
     /\ \/ step.cfg.FileLevel.t = "int" /\ step.cfg.FileLevel.i \notin 0..5
        \/ step.cfg.ConsoleLevel.t = "int" /\ step.cfg.ConsoleLevel.i \notin 0..5)
        => (step.l = NilPtr /\ step.err # NoErr)

\* C6: a string level that is a level name in any casing resolves to that
\* name's rank; any other string makes NewLogger return an error and no
\* Logger.
C6_StringLevels ==
    step.op = "NewLogger" =>
        /\ step.cfg.FileLevel.t = "string" =>
              IF IsLevelName(step.cfg.FileLevel.s)
              THEN /\ step.err.msg # "invalid file log level"
                   /\ step.l # NilPtr =>
                         step.l.FileLogLevel
                             = step.l.LogLevelMap[LevelNameOf(step.cfg.FileLevel.s)]
              ELSE step.l = NilPtr /\ step.err.msg = "invalid file log level"
        /\ step.cfg.ConsoleLevel.t = "string" =>
              IF IsLevelName(step.cfg.ConsoleLevel.s)
              THEN /\ step.err.msg # "invalid console log level"
                   /\ step.l # NilPtr =>
                         step.l.ConsoleLogLevel
                             = step.l.LogLevelMap[LevelNameOf(step.cfg.ConsoleLevel.s)]
              ELSE step.l = NilPtr /\ step.err # NoErr

\* a Logger built from a level name that is not written in lower case
C6_Witness ==
    /\ step.op = "NewLogger" /\ step.l # NilPtr
    /\ step.cfg.FileLevel.t = "string"
    /\ step.cfg.FileLevel.s = AlternateCase(s_error)
    /\ step.l.FileLogLevel = step.l.LogLevelMap[s_error]

\* C7: NewLogger keeps Format, FileLevel, ConsoleLevel, MaxSize, MaxBackups
\* and MaxAge when supplied and otherwise sets "standard", "warning",
\* "warning", 10, 7 and 30; FilePath, ConsoleOutput, EnableRotation and
\* Compress are left as supplied.
C7_Defaults ==
    (step.op = "NewLogger" /\ step.l # NilPtr) =>
        LET c == step.cfg
            d == step.l.Config
        IN  /\ d.Format = IF c.Format = s_empty THEN s_standard ELSE c.Format
            /\ d.FileLevel = IF c.FileLevel = NilPtr THEN StrV(s_warning) ELSE c.FileLevel
            /\ d.ConsoleLevel
                  = IF c.ConsoleLevel = NilPtr THEN StrV(s_warning) ELSE c.ConsoleLevel
            /\ d.RotationConfig.MaxSize
                  = IF c.RotationConfig.MaxSize = 0 THEN 10 ELSE c.RotationConfig.MaxSize
            /\ d.RotationConfig.MaxBackups
                  = IF c.RotationConfig.MaxBackups = 0 THEN 7
                    ELSE c.RotationConfig.MaxBackups
            /\ d.RotationConfig.MaxAge
                  = IF c.RotationConfig.MaxAge = 0 THEN 30 ELSE c.RotationConfig.MaxAge
            /\ d.FilePath = c.FilePath
            /\ d.ConsoleOutput = c.ConsoleOutput
            /\ d.EnableRotation = c.EnableRotation
            /\ d.RotationConfig.Compress = c.RotationConfig.Compress

\* a Logger built from a configuration with every defaulted field unset
C7_Witness ==
    /\ step.op = "NewLogger" /\ step.l # NilPtr
    /\ step.cfg.Format = s_empty
    /\ step.cfg.FileLevel = NilPtr /\ step.cfg.ConsoleLevel = NilPtr
    /\ step.cfg.RotationConfig = RotationConfig(0, 0, 0, FALSE)
    /\ step.cfg.FilePath = s_empty
    /\ step.l.Config.FileLevel = StrV(s_warning)
    /\ step.l.Config.RotationConfig.MaxAge = 30

\* C8: a Logger built with an empty FilePath never creates, opens or writes
\* a file, and a Logger built with ConsoleOutput false never writes to
\* standard output, whatever is logged.
C8_AbsentSinkUntouched ==
    /\ (lg # NilPtr /\ lg.Config.FilePath = s_empty) =>
          /\ files = {}
          /\ \A i \in DOMAIN step.out : step.out[i].ch # "file"
    /\ (lg # NilPtr /\ ~lg.Config.ConsoleOutput) =>
          \A i \in DOMAIN step.out : step.out[i].ch # "stdout"

\* a fatal record logged on a file-only Logger whose console threshold
\* accepts it
C8_Witness ==
    /\ step.op = "log" /\ step.level = s_fatal
    /\ ~step.l.Config.ConsoleOutput
    /\ Wrote("file") /\ ~Wrote("stdout")

\* C9: Fatal, Fatalf and Fatalln write the record to every enabled sink
\* under every pair of thresholds, and the process exits, with status 1,
\* only after those writes have returned.
C9_FatalWrittenBeforeExit ==
    /\ [](step.op = "log" /\ step.level = s_fatal =>
            /\ FileSinkConfigured(step.l) => Wrote("file")
            /\ ConsoleEnabled(step.l) => Wrote("stdout")
            /\ exited = NotExited)
    /\ [][exited' # exited =>
            /\ exited' = 1
            /\ step.op = "log" /\ step.level = s_fatal /\ step.p = step'.p
            /\ FileSinkConfigured(step.l) => Wrote("file")
            /\ ConsoleEnabled(step.l) => Wrote("stdout")]_vars

\* the process has exited after a fatal call on a Logger with both sinks,
\* each with the most restrictive threshold
C9_Witness ==
    /\ exited = 1 /\ step.op = "exit"
    /\ lg # NilPtr /\ FileSinkConfigured(lg) /\ ConsoleEnabled(lg)
    /\ FileThreshold(lg) = Severity(s_fatal)


\* goroutine p is inside a package-level Fatal, Fatalf or Fatalln, or about
\* to run the os.Exit(1) that follows a fatal record
FatalInProgress(p) ==
    /\ pc[p] # "done"
    /\ \/ pc[p] = "exit"
       \/ (loc[p].fn = "log" /\ loc[p].level = s_fatal)

\* C10: every fatal-severity call ends by terminating the process with a
\* non-zero status after attempting emission, also when a sink write failed:
\* a package-level Fatal, Fatalf or Fatalln that has started is left only by
\* the os.Exit(1) that follows the record, never by a return to the caller
\* and never by a termination that precedes the attempt to emit, and that
\* os.Exit(1) is reached only by the step that handed the record to the sinks
C10_FatalAlwaysTerminates ==
    [][\A p \in Procs :
          /\ (FatalInProgress(p) /\ ~FatalInProgress(p)')
                => (pc[p] = "exit" /\ exited' > 0)
          /\ (pc[p] # "exit" /\ pc'[p] = "exit")
                => (step'.op = "log" /\ step'.p = p /\ step'.level = s_fatal)]_vars

\* the configuration c with every unset field that has a default set to it
WithDefaults(c) ==
    LogConfig(c.FilePath,
              IF c.Format = s_empty THEN s_standard ELSE c.Format,
              IF c.FileLevel = NilPtr THEN StrV(s_warning) ELSE c.FileLevel,
              IF c.ConsoleLevel = NilPtr THEN StrV(s_warning) ELSE c.ConsoleLevel,
              c.ConsoleOutput, c.EnableRotation,
              RotationConfig(
                  IF c.RotationConfig.MaxSize = 0 THEN 10 ELSE c.RotationConfig.MaxSize,
                  IF c.RotationConfig.MaxBackups = 0 THEN 7
                  ELSE c.RotationConfig.MaxBackups,
                  IF c.RotationConfig.MaxAge = 0 THEN 30 ELSE c.RotationConfig.MaxAge,
                  c.RotationConfig.Compress))

\* goroutine p is in GetLoggerConfig, past the nil test, and nothing has
\* changed the registry since it ran the test
ReadsUndisturbed(p) ==
    /\ pc[p] = "invoke"
    /\ loc[p].fn = "GetLoggerConfig"
    /\ loc[p].seen = logInstance

\* C11: when InitLogger(c) has returned without error the registry holds the
\* instance newly built from c, whatever it held before, and a
\* GetLoggerConfig that no registry operation disturbs returns the
\* configuration of the installed instance, which is c with the defaults
\* applied.
C11_InitLoggerInstalls ==
    /\ []((step.op = "InitLogger" /\ step.err = NoErr) =>
            /\ logInstance # NilPtr
            /\ logInstance = NewLogger(step.cfg, files).l
            /\ logInstance.Config = WithDefaults(step.cfg))
    /\ [][\A p \in Procs :
             (ReadsUndisturbed(p) /\ pc'[p] = "idle") =>
                 /\ step'.op = "return" /\ step'.p = p
                 /\ step'.cfg = logInstance.Config]_vars

\* an explicit InitLogger has just replaced the instance that another
\* goroutine still holds from its nil test, and has applied defaults
C11_Witness ==
    /\ step.op = "InitLogger" /\ ~step.lazy /\ step.err = NoErr
    /\ step.cfg.FilePath = p_ok
    /\ logInstance.Config # step.cfg
    /\ \E q \in Procs :
          /\ pc[q] = "invoke"
          /\ loc[q].seen # NilPtr
          /\ loc[q].seen # logInstance

\* goroutine p found the registry empty in ensureLoggerInitialized and has
\* not yet come back from the InitLogger it called
InLazyInit(p) ==
    /\ pc[p] \in {"init_lock", "init_new"}
    /\ loc[p].fn # "InitLogger"

\* C12: a package-level logging function or GetLoggerConfig called while
\* the registry is empty installs, before it goes on, an instance built from
\* the fixed default configuration: standard format, console output enabled
\* with threshold info, and no file sink.
C12_LazyDefault ==
    /\ []((step.op = "InitLogger" /\ step.lazy) =>
            /\ step.cfg = defaultConfig
            /\ step.err = NoErr
            /\ logInstance # NilPtr
            /\ logInstance.Config.Format = s_standard
            /\ ConsoleEnabled(logInstance)
            /\ logInstance.ConsoleLogger = StdoutWriter
            /\ ConsoleThreshold(logInstance) = Severity(s_info)
            /\ ~FileSinkConfigured(logInstance)
            /\ logInstance.FileLogger = NilPtr)
    /\ [][\A p \in Procs :
             /\ (pc[p] = "idle" /\ pc'[p] # "idle" /\ loc'[p].fn # "InitLogger"
                 /\ logInstance = NilPtr) => InLazyInit(p)'
             /\ (InLazyInit(p) /\ ~InLazyInit(p)') =>
                   /\ step'.op = "InitLogger" /\ step'.lazy /\ step'.p = p
                   /\ logInstance' # NilPtr
                   /\ pc'[p] = "check"]_vars

\* GetLoggerConfig on an empty registry has just installed the default
\* instance and is about to read it
C12_Witness ==
    /\ step.op = "InitLogger" /\ step.lazy
    /\ pc[step.p] = "check" /\ loc[step.p].fn = "GetLoggerConfig"
    /\ logInstance # NilPtr /\ logInstance.Config.ConsoleLevel = StrV(s_info)

\* C13: ResetLogger leaves the registry empty and constructs no replacement
\* instance, from any prior registry state; on an already empty registry it
\* changes nothing.
C13_ResetEmpties ==
    /\ [](step.op = "ResetLogger" => (logInstance = NilPtr /\ step.out = <<>>))
    /\ [][step'.op = "ResetLogger" =>
             /\ logInstance' = NilPtr
             /\ UNCHANGED <<files, mu, pc, loc, exited>>
             /\ logInstance = NilPtr => UNCHANGED logInstance]_vars

\* ResetLogger has emptied a registry whose instance, built on a log file,
\* another goroutine had read in its nil test
C13_Witness ==
    /\ step.op = "ResetLogger" /\ logInstance = NilPtr
    /\ \E q \in Procs :
          /\ q # step.p /\ pc[q] = "invoke"
          /\ loc[q].seen # NilPtr /\ FileSinkConfigured(loc[q].seen)

\* C14: a package-level logging call that runs concurrently with
\* ResetLogger or InitLogger either logs through an instance that was
\* installed in the registry or silently does nothing; it never invokes a
\* method on an absent (nil) instance.
C14_ConcurrentCallSafe ==
    /\ step.op # "panic"
    /\ step.op = "log" => step.l # NilPtr

\* goroutine q reads logInstance in this step: the nil test or the call
\* expression of a package-level function
ReadsRegistry(q) == pc[q] \in {"check", "invoke"} /\ pc'[q] # pc[q]

\* C15: InitLogger holds the registry lock from the discard of the installed
\* instance to the installation of the new one, so that no concurrent caller
\* observes the state in between: no goroutine reads the registry when
\* another one has just discarded an installed instance and not yet
\* installed its replacement.
C15_NoHalfInstalled ==
    [][(step.op = "discard" /\ step.old # NilPtr) =>
          \A q \in Procs : q # step.p => ~ReadsRegistry(q)]_vars

\* what a JSON parser reads from the text between the quotes of a string:
\* escapes are undone, and an unescaped quote ends the string
RECURSIVE DecodeFrom(_, _)
DecodeFrom(t, i) ==
    IF i > Len(t) \/ t[i] = "\"" THEN <<>>
    ELSE IF t[i] = "\\" /\ i < Len(t)
    THEN IF t[i + 1] = "u"
         THEN <<(IF SubSeq(t, i + 2, i + 5) = <<"0", "0", "3", "c">> THEN "<"
                 ELSE IF SubSeq(t, i + 2, i + 5) = <<"f", "f", "f", "d">>
                 THEN ReplacementChar ELSE "?")>> \o DecodeFrom(t, i + 6)
         ELSE <<(IF t[i + 1] = "n" THEN "\n" ELSE t[i + 1])>> \o DecodeFrom(t, i + 2)
    ELSE <<t[i]>> \o DecodeFrom(t, i + 1)

DecodeString(t) == DecodeFrom(t, 1)

\* the text of one argument, and the arguments of a call put one after the
\* other with a space only between two neighbours that are both non-strings
ArgText(a) == IF a.t = "string" THEN a.s ELSE Itoa(a.i)

RECURSIVE Concatenated(_)
Concatenated(v) ==
    IF Len(v) = 0 THEN <<>>
    ELSE IF Len(v) = 1 THEN ArgText(v[1])
    ELSE Concatenated(SubSeq(v, 1, Len(v) - 1))
         \o (IF v[Len(v) - 1].t = "string" \/ v[Len(v)].t = "string"
             THEN <<>> ELSE <<" ">>)
         \o ArgText(v[Len(v)])

\* a text with every byte that is not valid UTF-8 replaced by U+FFFD
ValidText(t) == [i \in DOMAIN t |-> IF t[i] = InvalidByte THEN ReplacementChar ELSE t[i]]

JsonKeys == {"timestamp", "level", "pid", "file", "line", "message"}

\* the most recent statement was a log call that rendered a record on a
\* Logger whose Format is "json"
EmittedJson == step.op = "log" /\ step.entry # NilPtr /\ step.l.Config.Format = s_json

\* the record is one flat object with the six keys, its level is the name
\* of the call's level, and both sinks are handed that record
JsonRecordShape ==
    /\ step.entry.fmt = "json"
    /\ DOMAIN step.entry.obj = JsonKeys
    /\ \A k \in JsonKeys : step.entry.obj[k].t \in {"string", "number"}
    /\ step.entry.obj.level.t = "string"
    /\ DecodeString(step.entry.obj.level.text) = step.level
    /\ step.entry.obj.message.t = "string"
    /\ \A i \in DOMAIN step.out : step.out[i].data.entry = step.entry

RECURSIVE FindClose(_, _)
FindClose(t, i) ==
    IF i > Len(t) THEN Len(t) + 1
    ELSE IF t[i] = "]" THEN i ELSE FindClose(t, i + 1)

\* reads "[body] " at position i of t: the body and the position after the
\* space, or no match
Bracket(t, i) ==
    LET j == FindClose(t, i)
    IN  IF i <= Len(t) /\ t[i] = "[" /\ j < Len(t) /\ t[j + 1] = " "
        THEN [ok |-> TRUE, body |-> SubSeq(t, i + 1, j - 1), next |-> j + 2]
        ELSE [ok |-> FALSE, body |-> <<>>, next |-> i]

\* the four bracketed fields at the head of t and the text after them
Fields(t) ==
    LET b1 == Bracket(t, 1)
        b2 == Bracket(t, b1.next)
        b3 == Bracket(t, b2.next)
        b4 == Bracket(t, b3.next)
    IN  [ok |-> b1.ok /\ b2.ok /\ b3.ok /\ b4.ok,
         timestamp |-> b1.body, pid |-> b2.body, site |-> b3.body, level |-> b4.body,
         message |-> SubSeq(t, b4.next, Len(t))]

\* t is "<file>:<line>": it ends in a colon followed by digits only
IsFileAndLine(t) ==
    \E k \in DOMAIN t :
        /\ k > 1 /\ k < Len(t) /\ t[k] = ":"
        /\ \A i \in (k + 1)..Len(t) : \E d \in DOMAIN DigitChars : t[i] = DigitChars[d]

\* the message body of a call: the concatenation of a plain call's
\* arguments, what Sprintf and Sprintln make of the others'
MessageBody(call) ==
    IF call.shape = "plain" THEN Concatenated(call.args) ELSE LogArgs(call)[1].s

\* the application frame that made the call, when there is one: the go
\* statement that starts a goroutine with the entry point leaves no frame
HasCallingFrame == step.app[1].fn # "runtime.goexit"

\* file and line of the application code that called the entry point, as a
\* record shows them: the path relative to the project, or the base name
CallingSite ==
    [file |-> PathText(trimPathToProject(step.app[1].file, env)),
     line |-> step.app[1].line]

\* file and line that the rendered record carries
RecordSite ==
    IF step.entry.fmt = "json"
    THEN [ok |-> step.entry.obj.file.t = "string" /\ step.entry.obj.line.t = "number",
          file |-> DecodeString(step.entry.obj.file.text),
          line |-> Itoa(step.entry.obj.line.n)]
    ELSE LET site == Fields(step.entry.text).site
             k == CHOOSE k \in DOMAIN site \cup {0} :
                     /\ k = 0 \/ site[k] = ":"
                     /\ \A j \in (k + 1)..Len(site) : site[j] # ":"
         IN  [ok |-> k > 1, file |-> SubSeq(site, 1, k - 1),
              line |-> SubSeq(site, k + 1, Len(site))]

\* the record names the calling site
NamesCallingSite ==
    /\ RecordSite.ok
    /\ RecordSite.file = CallingSite.file
    /\ RecordSite.line = Itoa(CallingSite.line)

\* the layout of a standard record: four bracketed fields, then the message
StandardLayout ==
    /\ step.entry.fmt = "text"
    /\ LET f == Fields(step.entry.text)
       IN  /\ f.ok
           /\ f.timestamp = step.now
           /\ f.pid = <<"P", "I", "D", ":", " ">> \o Itoa(env.pid)
           /\ IsFileAndLine(f.site)
           /\ f.level = ToUpper(step.level)
           /\ f.message = MessageBody(step.call)

\* C17: with Format "standard" every emitted record consists, in this
\* order, of the bracketed timestamp, the bracketed "PID: <pid>", the
\* bracketed "<file>:<line>" of the caller, the bracketed upper-case name of
\* the call's severity, and then the message.
C17_StandardRecord ==
    (step.op = "log" /\ step.entry # NilPtr /\ step.l.Config.Format = s_standard) =>
        /\ StandardLayout
        /\ HasCallingFrame => NamesCallingSite

\* C18: for every public logging entry point, Logger method or
\* package-level function, of every shape, the file and line embedded in the
\* record are those of the application code that called the entry point.
C18_CallerIsApplication ==
    (step.op = "log" /\ step.entry # NilPtr /\ HasCallingFrame) => NamesCallingSite

\* the layout alone holds of every standard record, and a package-level
\* call does name its calling site
LayoutHolds ==
    (step.op = "log" /\ step.entry # NilPtr) =>
        /\ step.l.Config.Format = s_standard => StandardLayout
        /\ (step.via = "package" /\ HasCallingFrame) => NamesCallingSite

\* a level value that NewLogger accepts
IsValidLevel(v) ==
    \/ v = NilPtr
    \/ v.t = "int"
    \/ v.t = "string" /\ IsLevelName(v.s)

\* NewLogger has just been called with a FilePath whose parent directory
\* does not exist
MissingDirectoryCase ==
    /\ step.op = "NewLogger"
    /\ step.cfg.FilePath # s_empty
    /\ Dir(step.cfg.FilePath) \notin ExistingDirs

\* no Logger, an error, and nothing created on disk
FailedAndCreatedNothing ==
    /\ step.l = NilPtr /\ lg = NilPtr
    /\ step.err # NoErr /\ lgErr = step.err
    /\ files = {}

NamesMissingDirectory ==
    /\ step.err.msg = "log directory does not exist"
    /\ step.err.cause = Dir(step.cfg.FilePath)

\* C19: when FilePath is set and its parent directory does not exist,
\* NewLogger returns an error that names the missing directory and no
\* Logger, and creates neither the directory nor the log file.
C19_MissingDirectory ==
    MissingDirectoryCase => (FailedAndCreatedNothing /\ NamesMissingDirectory)

\* C19, amended: in that case NewLogger returns an error and no Logger and
\* creates nothing; the error names the missing directory when FileLevel and
\* ConsoleLevel are valid, an invalid level being reported first.
C19_MissingDirectoryAfterLevels ==
    MissingDirectoryCase =>
        /\ FailedAndCreatedNothing
        /\ IF IsValidLevel(step.cfg.FileLevel) /\ IsValidLevel(step.cfg.ConsoleLevel)
           THEN NamesMissingDirectory
           ELSE step.err.msg \in {"invalid file log level", "invalid console log level"}

\* NewLogger has refused a configuration with rotation off and valid levels
\* whose log directory is missing
C19_Witness ==
    /\ MissingDirectoryCase /\ ~step.cfg.EnableRotation
    /\ step.cfg.FileLevel = StrV(s_info)
    /\ step.err = Err("log directory does not exist", <<"missing">>)
    /\ step.l = NilPtr /\ files = {}

\* C20: when FilePath is set and the log file cannot be opened or created,
\* NewLogger returns an error and no Logger, with rotation enabled as well
\* as with rotation disabled.
C20_UnopenableFileRejected ==
    (/\ step.op = "NewLogger"
     /\ step.cfg.FilePath # s_empty
     /\ ~CanOpen(step.cfg.FilePath, files))
        => (step.l = NilPtr /\ step.err # NoErr)

\* the most recent statement was a log call whose write on ch failed
WriteFailed(ch) ==
    \E i \in DOMAIN step.out :
        step.out[i].kind = "log" /\ step.out[i].ch = ch /\ ~step.out[i].ok

\* the goroutine of the most recent log call is past the call: back in the
\* application, or for a fatal method at its os.Exit
ReturnedFromLog ==
    pc[step.p] = IF step.level = s_fatal THEN "exit" ELSE "idle"

\* C21: a failed sink write does not make the logging call fail: when the
\* write to the file fails, the console write of the same call is still
\* issued if the console qualifies, the call returns, and the Logger is as
\* it was.
C21_WriteFailureNotObservable ==
    (step.op = "log" /\ (WriteFailed("file") \/ WriteFailed("stdout"))) =>
        /\ (WriteFailed("file") /\ step.level \in LevelNames
              /\ ConsoleEnabled(step.l)
              /\ Severity(step.level) >= ConsoleThreshold(step.l))
             => Wrote("stdout")
        /\ (WriteFailed("file") /\ step.level = s_print /\ ConsoleEnabled(step.l))
             => Wrote("stdout")
        /\ ReturnedFromLog
        /\ lg = step.l
        /\ exited = NotExited

\* an Error call through a rotating writer whose directory is read-only: the
\* file write fails, the console write is issued
C21_Witness ==
    /\ step.op = "log" /\ step.level = s_error
    /\ step.l.FileLogger # NilPtr /\ step.l.FileLogger.w = "lumberjack"
    /\ WriteFailed("file") /\ Wrote("stdout") /\ ~WriteFailed("stdout")
    /\ ReturnedFromLog /\ lg = step.l

\* the lines fmt.Println wrote for the most recent statement
DiagnosticLines == {i \in DOMAIN step.out : step.out[i].kind = "diag"}

\* C22: every diagnostic line emitted for a construction failure, by
\* NewLogger, by InitLogger or by the lazy default initialisation, goes to
\* the standard error stream and none to standard output; the error is
\* still returned and nothing panics.
C22_DiagnosticsOnStderr ==
    /\ \A i \in DiagnosticLines : step.out[i].ch = "stderr"
    /\ (step.op = "InitLogger" /\ DiagnosticLines # {}) =>
           (step.err # NoErr /\ step.l = NilPtr)
    /\ step.op # "panic"

\* what the most recent log call handed to the sink ch
HandedTo(ch) ==
    LET i == CHOOSE j \in DOMAIN step.out :
                 step.out[j].kind = "log" /\ step.out[j].ch = ch
    IN  step.out[i].data

\* C23: a call emitted to both sinks renders its record once: the file is
\* handed the record R as it is, the console the same R in the display style
\* of the call's severity (the colour's escape sequences, which the colour
\* library leaves out when colour is off), so both sinks carry one timestamp
\* and one call site, and no colour code reaches the file.
C23_RenderedOnce ==
    (step.op = "log" /\ Wrote("file") /\ Wrote("stdout")) =>
        /\ HandedTo("file").style = "none"
        /\ HandedTo("file").entry = step.entry
        /\ HandedTo("stdout").entry = HandedTo("file").entry
        /\ HandedTo("stdout").style =
               IF env.noColor THEN "none" ELSE ColorOf(step.level)
        /\ Cardinality({j \in DOMAIN step.out : step.out[j].kind = "log"}) = 2

\* an error record in the standard format, colour on: the console is handed
\* the file's record in red
C23_Witness ==
    /\ step.op = "log" /\ step.level = s_error /\ ~env.noColor
    /\ Wrote("file") /\ Wrote("stdout")
    /\ step.entry.fmt = "text"
    /\ HandedTo("stdout") = [style |-> "FgRed", entry |-> HandedTo("file").entry]

\* the condition of each sink's own if statement in log
FileCheckAlone(l, level) ==
    l.FileLogger # NilPtr /\ (level = s_print \/ msgLevel(l, level) <= l.FileLogLevel)
ConsoleCheckAlone(l, level) ==
    l.Config.ConsoleOutput /\ (level = s_print \/ msgLevel(l, level) <= l.ConsoleLogLevel)

\* C24: the early return of log changes no sink's outcome: for every
\* severity, thresholds and enabled sinks, the sinks written are those the
\* two per-sink checks alone select, and the early return is taken only when
\* neither sink would have been written.
C24_EarlyReturnEquivalent ==
    step.op = "log" =>
        /\ Wrote("file") <=> FileCheckAlone(step.l, step.level)
        /\ Wrote("stdout") <=> ConsoleCheckAlone(step.l, step.level)
        /\ logReturnsEarly(step.l, step.level) =>
               /\ ~FileCheckAlone(step.l, step.level)
               /\ ~ConsoleCheckAlone(step.l, step.level)
               /\ step.out = <<>>

\* a debug call on a Logger with both sinks whose thresholds are error and
\* warning: the early return is taken; and the call would be rejected by
\* each sink's own check
C24_Witness ==
    /\ step.op = "log" /\ step.level = s_debug
    /\ step.l.FileLogger # NilPtr /\ step.l.Config.ConsoleOutput
    /\ FileThreshold(step.l) = Severity(s_error)
    /\ ConsoleThreshold(step.l) = Severity(s_warning)
    /\ logReturnsEarly(step.l, step.level)
    /\ step.out = <<>>

\* the message the rendered record carries: the member "message" of a JSON
\* record as a parser reads it, the text after the four fields otherwise
RecordMessage ==
    IF step.entry.fmt = "json" THEN DecodeString(step.entry.obj.message.text)
    ELSE Fields(step.entry.text).message

\* what log.Logger.Println writes for a standard record: the record and the
\* terminator that fmt.Sprintln appends
PrintlnText(entry) == entry.text \o <<"\n">>

\* C25: the message body of a line-terminated call is the message body the
\* plain call of the same severity yields for the same arguments, followed
\* by exactly one newline; the sink writer then adds the record terminator,
\* so that the record is followed by a blank line.
C25_LineTerminatedBody ==
    (step.op = "log" /\ step.entry # NilPtr /\ step.shape = "ln") =>
        /\ RecordMessage = Concatenated(step.call.args) \o <<"\n">>
        /\ step.entry.fmt = "text" =>
               LET w == PrintlnText(step.entry)
               IN  SubSeq(w, Len(w) - 1, Len(w)) = <<"\n", "\n">>

\* a configuration with valid levels whose log file, if any, can be set up
UsableConfig(c) ==
    /\ IsValidLevel(c.FileLevel) /\ IsValidLevel(c.ConsoleLevel)
    /\ c.FilePath = s_empty \/ Dir(c.FilePath) \in WritableDirs

\* C26: whenever InitLogger returns an error the registry is empty (no
\* earlier and no partially built instance is in it) and the call has
\* returned after its one attempt; an InitLogger with a valid configuration,
\* after a failure as at any other time, succeeds and installs its instance.
C26_FailedInitLeavesEmpty ==
    step.op = "InitLogger" =>
        /\ step.err # NoErr =>
              /\ logInstance = NilPtr /\ step.l = NilPtr
              /\ mu = 0
              /\ pc[step.p] = IF step.lazy THEN "check" ELSE "idle"
              /\ Cardinality({i \in DiagnosticLines :
                     step.out[i].msg = "Logger initialization error:"}) = 1
        /\ UsableConfig(step.cfg) =>
              /\ step.err = NoErr
              /\ logInstance = step.l /\ step.l # NilPtr
              /\ step.l.Config = WithDefaults(step.cfg)

\* an explicit InitLogger with an invalid level has failed after an earlier
\* InitLogger had installed an instance with a log file
C26_Witness ==
    /\ step.op = "InitLogger" /\ ~step.lazy
    /\ step.err # NoErr /\ step.err.msg = "invalid file log level"
    /\ files # {}
    /\ logInstance = NilPtr

\* an instance that an explicit InitLogger installed: its configuration is
\* not the one the lazy initialisation uses
ExplicitlyInstalled(l) == l # NilPtr /\ l.Config # WithDefaults(defaultConfig)

\* the most recent statement was the discard of an InitLogger that
\* ensureLoggerInitialized called
LazyDiscard == step.op = "discard" /\ loc[step.p].fn # "InitLogger"

\* C27: once an explicit InitLogger(c) has returned successfully, and with
\* no later explicit InitLogger or ResetLogger, the installed instance keeps
\* configuration c in every interleaving: a lazy default initialisation
\* happens only while the registry is absent and never replaces the
\* explicitly installed instance.
C27_LazyNeverReplacesExplicit ==
    LazyDiscard => ~ExplicitlyInstalled(step.old)

\* C28: in every interleaving of InitLogger, ResetLogger, GetLoggerConfig
\* and the package-level logging calls other than the fatal ones, every call
\* eventually returns.
C28_EveryCallReturns ==
    \A p \in Procs : (pc[p] # "idle") ~> (pc[p] = "idle")

\* the lock discipline alone holds: every call returns unless the process
\* has panicked
ReturnsUnlessPanicked ==
    \A p \in Procs : (pc[p] # "idle") ~> (pc[p] = "idle" \/ exited # NotExited)

\* a directory and the directories above it, up to the root
Ancestors(dir) == {SubSeq(dir, 1, k) : k \in 1..Len(dir)}

\* the directories at or above the working directory that contain go.mod
ModulesAbove(e) == {a \in Ancestors(e.cwd) : a \in e.mods}

\* what runtime.Caller reported for the most recent log call
Reported == Caller(CallerSkip, CallStack(step.via, step.app))

\* C29: findProjectDir terminates for every working directory and returns
\* the nearest directory, from the working directory upwards, that contains
\* go.mod, or the empty string when there is none up to the root; in that
\* case trimPathToProject reports only the base name of the source file.
C29_NearestModule ==
    env.cwd # NoCwd =>
        /\ IF ModulesAbove(env) = {} THEN findProjectDir(env) = <<>>
           ELSE /\ findProjectDir(env) \in ModulesAbove(env)
                /\ \A a \in ModulesAbove(env) : Len(a) <= Len(findProjectDir(env))
        /\ (/\ ModulesAbove(env) = {}
            /\ step.op = "log" /\ step.entry # NilPtr
            /\ Reported.ok) =>
               /\ trimPathToProject(Reported.file, env) = Base(Reported.file)
               /\ RecordSite.file = Base(Reported.file)

\* a record was rendered by a process started in a directory that has a
\* go.mod of its own inside another module: the inner directory is found
C29_Witness ==
    /\ step.op = "log" /\ step.entry # NilPtr
    /\ env.cwd = d_cmd /\ env.mods = {d_app, d_cmd}
    /\ findProjectDir(env) = d_cmd

\* C30: in every Logger a successful NewLogger returned, ConsoleLogger is
\* non-nil exactly when Config.ConsoleOutput is true and FileLogger exactly
\* when Config.FilePath is not empty; no logging operation changes these
\* fields or the thresholds, and no log call writes through an absent
\* writer.
C30_SinkWritersMatchConfig ==
    /\ (step.op = "NewLogger" /\ step.err = NoErr) => (step.l # NilPtr /\ lg = step.l)
    /\ lg # NilPtr =>
          /\ lg.ConsoleLogger # NilPtr <=> lg.Config.ConsoleOutput
          /\ lg.FileLogger # NilPtr <=> lg.Config.FilePath # s_empty
    /\ step.op = "log" =>
          /\ lg = step.l
          /\ Wrote("file") => step.l.FileLogger # NilPtr
          /\ Wrote("stdout") => step.l.ConsoleLogger # NilPtr

\* a record written to the console by a Logger that has no file sink
C30_Witness ==
    /\ step.op = "log" /\ step.level = s_warning
    /\ lg.Config.FilePath = s_empty /\ lg.FileLogger = NilPtr
    /\ lg.Config.ConsoleOutput /\ lg.ConsoleLogger # NilPtr
    /\ Wrote("stdout") /\ ~Wrote("file")

=============================================================================
